---------------------------- MODULE Spec2Model ----------------------------
(***************************************************************************)
(* Model of hammer_dance.py: the SIR integrator (sir_derivatives,          *)
(* euler_step) and the phase-switching loop of                             *)
(* HammerDanceModel.simulate_dynamic_hammer_dance.                         *)
(*                                                                         *)
(* Python floats are modelled as rationals [num, den] kept in lowest terms  *)
(* with den > 0, so equal values are equal records.  Under Spec and         *)
(* FixtureSpec the arithmetic is exact (precision = 0): rounding of IEEE    *)
(* doubles is not modelled and every statement checked there is a statement *)
(* about the program in exact arithmetic.  Under ScenarioSpec, whose run is *)
(* too long for exact fractions, every arithmetic result is rounded to the  *)
(* nearest multiple of 1/Resolution, a coarse stand-in for the rounding of  *)
(* a double to 53 significant bits.                                         *)
(***************************************************************************)
EXTENDS Integers, Sequences, FiniteSets, TLC

\* 0: results are exact; g > 0: results are rounded to multiples of 1/g
VARIABLE precision

----------------------------------------------------------------------------
(* Exact rational arithmetic *)

Abs(x) == IF x < 0 THEN -x ELSE x

RECURSIVE GCD(_, _)
GCD(a, b) == IF b = 0 THEN a ELSE GCD(b, a % b)

\* n/d in lowest terms, d # 0
Rat(n, d) ==
  LET g == GCD(Abs(n), Abs(d))
      s == IF d < 0 THEN -1 ELSE 1
  IN  [num |-> (s * n) \div g, den |-> (s * d) \div g]

Zero == Rat(0, 1)

\* the value an arithmetic operation returns for the exact result x
fl(x) ==
  IF precision = 0
    THEN x
    ELSE LET g == GCD(precision, x.den)
             a == x.num * (precision \div g)
             b == x.den \div g
         IN  Rat((2 * a + b) \div (2 * b), precision)

RNeg(a) == [num |-> -a.num, den |-> a.den]

RAdd(a, b) ==
  LET l == (a.den \div GCD(a.den, b.den)) * b.den
  IN  fl(Rat(a.num * (l \div a.den) + b.num * (l \div b.den), l))

RSub(a, b) == RAdd(a, RNeg(b))

RMul(a, b) ==
  LET g1 == GCD(Abs(a.num), b.den)
      g2 == GCD(Abs(b.num), a.den)
  IN  fl(Rat((a.num \div g1) * (b.num \div g2), (a.den \div g2) * (b.den \div g1)))

\* a / b, b # 0 (Python raises ZeroDivisionError when b = 0)
RDiv(a, b) == RMul(a, Rat(b.den, b.num))

RLt(a, b) == a.num * b.den < b.num * a.den
RLe(a, b) == a.num * b.den <= b.num * a.den

\* variant of int: rounds up instead of truncating
int_up(a) == -((-a.num) \div a.den)

\* Python int(x): truncation toward zero
int(a) == IF a.num >= 0 THEN a.num \div a.den ELSE -((-a.num) \div a.den)

\* mathematical floor, used only to state properties
Floor(a) == a.num \div a.den

----------------------------------------------------------------------------
(* Bounds and input sets *)

\* largest simulation horizon max_days tried
MaxDays == 4

PopulationSet   == {Rat(0, 1), Rat(2, 1)}
I0Set           == {Rat(0, 1), Rat(1, 1), Rat(2, 1)}
R0Set           == {Rat(0, 1), Rat(1, 1)}
BetaHammerSet   == {Rat(0, 1), Rat(1, 1)}
BetaDanceSet    == {Rat(1, 1), Rat(2, 1)}
GammaSet        == {Rat(1, 2), Rat(1, 1), Rat(2, 1)}
ThresholdSet    == {Rat(1, 2), Rat(1, 1), Rat(2, 1)}
DtSet           == {Rat(1, 1), Rat(2, 1)}
MaxDaysSet      == {Rat(d, 1) : d \in 0..MaxDays}

\* (I0, R0) pairs tried: the grid, and one pair with 0 < I0 < 0.1
InitialConditionSet ==
  (I0Set \X R0Set) \cup {<<Rat(1, 16), Rat(15, 16)>>}

\* Python None, the value main() passes for both durations
None == [num |-> 0, den |-> 0]

\* (hammer_duration, dance_duration) pairs tried
DurationSet == {<<None, None>>, <<Rat(1, 1), Rat(2, 1)>>}

\* the extinction threshold 0.1 of the loop
ExtinctionThreshold == Rat(1, 10)

----------------------------------------------------------------------------
(* State *)

VARIABLES
  N, S0, I0, R0, beta_hammer, beta_dance, gamma,   \* fields of HammerDanceModel
  max_days, hammer_threshold, dance_threshold, dt, \* arguments of the call
  hammer_duration, dance_duration,
  steps, step,                                     \* range(steps) and its index
  t_list, S_list, I_list, R_list, phase_list,      \* returned time series
  transition_points,                               \* returned transition log
  S, I, R, t,                                      \* loop state
  current_phase, phase_start_time,
  beta_used,                                       \* beta argument of the last euler_step call
  derivatives,                                     \* tuple returned by a direct sir_derivatives call
  pc                                               \* "ready", "loop", "break", "exhausted", "raised",
                                                   \* "fixture", "returned"

fields == <<N, S0, I0, R0, beta_hammer, beta_dance, gamma>>
args   == <<max_days, hammer_threshold, dance_threshold, dt,
            hammer_duration, dance_duration>>
series == <<t_list, S_list, I_list, R_list, phase_list>>
vars   == <<fields, args, steps, step, series, transition_points,
           S, I, R, t, current_phase, phase_start_time, beta_used,
           derivatives, pc, precision>>

----------------------------------------------------------------------------
(* Compartmental model *)

\* variant of sir_derivatives: the rates of the fractions are returned without
\* the final multiplication by N
sir_derivatives_fractions(Sx, Ix, Rx, beta) ==
  LET s    == RDiv(Sx, N)
      i    == RDiv(Ix, N)
      dsdt == RMul(RMul(RNeg(beta), s), i)
      didt == RSub(RMul(RMul(beta, s), i), RMul(gamma, i))
      drdt == RMul(gamma, i)
  IN  <<dsdt, didt, drdt>>

\* variant of sir_derivatives: drdt is computed from r instead of i
sir_derivatives_r(Sx, Ix, Rx, beta) ==
  LET s    == RDiv(Sx, N)
      i    == RDiv(Ix, N)
      r    == RDiv(Rx, N)
      dsdt == RMul(RMul(RNeg(beta), s), i)
      didt == RSub(RMul(RMul(beta, s), i), RMul(gamma, i))
      drdt == RMul(gamma, r)
  IN  <<RMul(dsdt, N), RMul(didt, N), RMul(drdt, N)>>

sir_derivatives(Sx, Ix, Rx, beta) ==
  LET s    == RDiv(Sx, N)
      i    == RDiv(Ix, N)
      dsdt == RMul(RMul(RNeg(beta), s), i)
      didt == RSub(RMul(RMul(beta, s), i), RMul(gamma, i))
      drdt == RMul(gamma, i)
  IN  <<RMul(dsdt, N), RMul(didt, N), RMul(drdt, N)>>

\* variant of euler_step: the compartments are updated one after the other,
\* each derivative taken at the values already updated
euler_step_sequential(Sx, Ix, Rx, beta, h) ==
  LET Sn == RAdd(Sx, RMul(sir_derivatives(Sx, Ix, Rx, beta)[1], h))
      In == RAdd(Ix, RMul(sir_derivatives(Sn, Ix, Rx, beta)[2], h))
      Rn == RAdd(Rx, RMul(sir_derivatives(Sn, In, Rx, beta)[3], h))
  IN  <<Sn, In, Rn>>

euler_step(Sx, Ix, Rx, beta, h) ==
  LET d == sir_derivatives(Sx, Ix, Rx, beta)
  IN  <<RAdd(Sx, RMul(d[1], h)), RAdd(Ix, RMul(d[2], h)), RAdd(Rx, RMul(d[3], h))>>

----------------------------------------------------------------------------
(* Pieces of the loop *)

\* steps = int(max_days / dt)
step_budget(md, h) == int(RDiv(md, h))

\* variant of loop_continues: one iteration too many (range(steps + 1))
loop_continues_inclusive(k, n) == k <= n

\* for step in range(steps)
loop_continues(k, n) == k < n

\* variant of record: the value is inserted at the front (insert(0, x))
record_front(lst, x) == <<x>> \o lst

\* variant of record: the list is rebound to a one-element list (lst = [x])
record_rebind(lst, x) == <<x>>

\* list.append
record(lst, x) == Append(lst, x)

\* variant of hammer_trigger: non-strict comparison (I >= hammer_threshold)
hammer_trigger_nonstrict(Ix, th) == RLe(th, Ix)

\* if I > hammer_threshold
hammer_trigger(Ix, th) == RLt(th, Ix)

\* variant of dance_trigger: the hammer period also ends once it has lasted
\* hammer_duration days
dance_trigger_timeout(Ix, th) ==
  \/ RLt(Ix, th)
  \/ hammer_duration # None /\ RLe(hammer_duration, RSub(t, phase_start_time))

\* variant of dance_trigger: non-strict comparison (I <= dance_threshold)
dance_trigger_nonstrict(Ix, th) == RLe(Ix, th)

\* variant of dance_trigger: the comparison is reversed (I > dance_threshold)
dance_trigger_reversed(Ix, th) == RLt(th, Ix)

\* if I < dance_threshold
dance_trigger(Ix, th) == RLt(Ix, th)

\* variant of transition_event: the time is taken after t += dt
transition_event_late(tx, kind, Ix) == <<RAdd(tx, dt), kind, Ix>>

\* variant of transition_event: the time is read from phase_start_time before
\* the assignment phase_start_time = t has taken effect
transition_event_stale(tx, kind, Ix) == <<phase_start_time, kind, Ix>>

\* the tuple appended to transition_points
transition_event(tx, kind, Ix) == <<tx, kind, Ix>>

\* variant of extinction: the threshold is 0.01 instead of 0.1
extinction_hundredth(Ix) == RLt(Ix, Rat(1, 100))

\* variant of extinction: only a negative count stops the loop (I < 0)
extinction_negative(Ix) == RLt(Ix, Zero)

\* variant of extinction: the magnitude is tested (abs(I) < 0.1)
extinction_abs(Ix) == RLt(Rat(Abs(Ix.num), Ix.den), ExtinctionThreshold)

\* if I < 0.1: break
extinction(Ix) == RLt(Ix, ExtinctionThreshold)

----------------------------------------------------------------------------
(* Initial state: a constructed HammerDanceModel, no simulation started *)

Init ==
  /\ precision = 0
  /\ N \in PopulationSet
  /\ \E c \in InitialConditionSet : I0 = c[1] /\ R0 = c[2]
  /\ S0 = RSub(RSub(N, I0), R0)
  /\ beta_hammer \in BetaHammerSet
  /\ beta_dance \in BetaDanceSet
  /\ gamma \in GammaSet
  /\ max_days = Zero /\ hammer_threshold = Zero /\ dance_threshold = Zero
  /\ dt = Rat(1, 1)
  /\ hammer_duration = None /\ dance_duration = None
  /\ steps = 0 /\ step = 0
  /\ t_list = <<>> /\ S_list = <<>> /\ I_list = <<>> /\ R_list = <<>>
  /\ phase_list = <<>> /\ transition_points = <<>>
  /\ S = Zero /\ I = Zero /\ R = Zero /\ t = Zero
  /\ current_phase = "dance" /\ phase_start_time = Zero
  /\ beta_used = Zero
  /\ derivatives = <<Zero, Zero, Zero>>
  /\ pc = "ready"

----------------------------------------------------------------------------
(* Actions *)

\* entry of simulate_dynamic_hammer_dance(md, ht, dth, hd, dd, h) up to the
\* loop head
loop_entry(md, ht, dth, hd, dd, h) ==
  /\ pc = "ready"
  /\ max_days' = md
  /\ hammer_threshold' = ht
  /\ dance_threshold' = dth
  /\ hammer_duration' = hd
  /\ dance_duration' = dd
  /\ dt' = h
  /\ steps' = step_budget(md, h)
  /\ step' = 0
  /\ t_list' = <<>> /\ S_list' = <<>> /\ I_list' = <<>> /\ R_list' = <<>>
  /\ phase_list' = <<>> /\ transition_points' = <<>>
  /\ S' = S0 /\ I' = I0 /\ R' = R0 /\ t' = Zero
  /\ current_phase' = "dance" /\ phase_start_time' = Zero
  /\ pc' = "loop"
  /\ UNCHANGED <<fields, beta_used, derivatives, precision>>

\* a call of simulate_dynamic_hammer_dance with arguments from the input sets
simulate_dynamic_hammer_dance ==
  \E md \in MaxDaysSet, ht \in ThresholdSet, dth \in ThresholdSet,
     d \in DurationSet, h \in DtSet :
    loop_entry(md, ht, dth, d[1], d[2], h)

\* variant of record_entry: the phase label is appended after the decision,
\* so it is the label of the phase the iteration leaves
record_entry_after_decision ==
  /\ t_list' = record(t_list, t)
  /\ S_list' = record(S_list, S)
  /\ I_list' = record(I_list, I)
  /\ R_list' = record(R_list, R)
  /\ phase_list' =
       record(phase_list,
              IF current_phase = "dance"
                THEN IF hammer_trigger(I, hammer_threshold) THEN "hammer" ELSE "dance"
                ELSE IF dance_trigger(I, dance_threshold) THEN "dance" ELSE "hammer")

\* the appends at the head of the loop body
record_entry ==
  /\ t_list' = record(t_list, t)
  /\ S_list' = record(S_list, S)
  /\ I_list' = record(I_list, I)
  /\ R_list' = record(R_list, R)
  /\ phase_list' = record(phase_list, current_phase)

\* variant of integrate: the rate is chosen after the decision, from the phase
\* the iteration leaves (beta_hammer if current_phase == 'hammer' else
\* beta_dance)
integrate_updated_phase(beta) ==
  LET b == IF current_phase' = "hammer" THEN beta_hammer ELSE beta_dance
  IN  /\ beta_used' = b
      /\ step' = step + 1
      /\ IF N.num = 0
           THEN /\ pc' = "raised"
                /\ UNCHANGED <<S, I, R, t>>
           ELSE LET new == euler_step(S, I, R, b, dt)
                IN  /\ S' = new[1] /\ I' = new[2] /\ R' = new[3]
                    /\ t' = RAdd(t, dt)
                    /\ pc' = IF extinction(new[2]) THEN "break" ELSE "loop"

\* S, I, R = self.euler_step(S, I, R, beta, dt); t += dt; extinction test
integrate(beta) ==
  /\ beta_used' = beta
  /\ step' = step + 1
  /\ IF N.num = 0
       THEN \* S / self.N raises ZeroDivisionError inside sir_derivatives
            /\ pc' = "raised"
            /\ UNCHANGED <<S, I, R, t>>
       ELSE LET new == euler_step(S, I, R, beta, dt)
            IN  /\ S' = new[1] /\ I' = new[2] /\ R' = new[3]
                /\ t' = RAdd(t, dt)
                /\ pc' = IF extinction(new[2]) THEN "break" ELSE "loop"

\* one loop iteration entered with current_phase = 'dance'
dance_iteration ==
  /\ pc = "loop"
  /\ loop_continues(step, steps)
  /\ current_phase = "dance"
  /\ record_entry
  /\ IF hammer_trigger(I, hammer_threshold)
       THEN /\ current_phase' = "hammer"
            /\ phase_start_time' = t
            /\ transition_points' =
                 record(transition_points, transition_event(t, "dance_to_hammer", I))
       ELSE UNCHANGED <<current_phase, phase_start_time, transition_points>>
  /\ integrate(beta_dance)
  /\ UNCHANGED <<fields, args, steps, derivatives, precision>>

\* one loop iteration entered with current_phase = 'hammer'
hammer_iteration ==
  /\ pc = "loop"
  /\ loop_continues(step, steps)
  /\ current_phase = "hammer"
  /\ record_entry
  /\ IF dance_trigger(I, dance_threshold)
       THEN /\ current_phase' = "dance"
            /\ phase_start_time' = t
            /\ transition_points' =
                 record(transition_points, transition_event(t, "hammer_to_dance_threshold", I))
       ELSE UNCHANGED <<current_phase, phase_start_time, transition_points>>
  /\ integrate(beta_hammer)
  /\ UNCHANGED <<fields, args, steps, derivatives, precision>>

\* range(steps) is exhausted: the loop ends and the function returns
loop_exhausted ==
  /\ pc = "loop"
  /\ ~loop_continues(step, steps)
  /\ pc' = "exhausted"
  /\ UNCHANGED <<fields, args, steps, step, series, transition_points,
                 S, I, R, t, current_phase, phase_start_time, beta_used,
                 derivatives, precision>>

Next ==
  \/ simulate_dynamic_hammer_dance
  \/ dance_iteration
  \/ hammer_iteration
  \/ loop_exhausted

Spec == Init /\ [][Next]_vars

----------------------------------------------------------------------------
(* Direct calls of sir_derivatives on a constructed model *)

FixturePopulationSet == {Rat(1000, 1), Rat(10000, 1)}
FixtureGammaSet      == {Rat(1, 10), Rat(1, 5)}
FixtureBetaSet       == {Rat(0, 1), Rat(1, 2), Rat(1, 1)}
FixtureSSet          == {Rat(0, 1), Rat(900, 1), Rat(9000, 1)}
FixtureISet          == {Rat(0, 1), Rat(100, 1), Rat(900, 1)}
FixtureRSet          == {Rat(0, 1), Rat(100, 1)}

\* a model constructed with I0 = R0 = 0 and the arguments of the call to come
FixtureInit ==
  /\ precision = 0
  /\ N \in FixturePopulationSet
  /\ gamma \in FixtureGammaSet
  /\ I0 = Zero /\ R0 = Zero /\ S0 = RSub(RSub(N, I0), R0)
  /\ beta_hammer = Zero /\ beta_dance = Zero
  /\ max_days = Zero /\ hammer_threshold = Zero /\ dance_threshold = Zero
  /\ dt = Rat(1, 1)
  /\ hammer_duration = None /\ dance_duration = None
  /\ steps = 0 /\ step = 0
  /\ t_list = <<>> /\ S_list = <<>> /\ I_list = <<>> /\ R_list = <<>>
  /\ phase_list = <<>> /\ transition_points = <<>>
  /\ S \in FixtureSSet /\ I \in FixtureISet /\ R \in FixtureRSet
  /\ t = Zero
  /\ current_phase = "dance" /\ phase_start_time = Zero
  /\ beta_used = Zero
  /\ derivatives = <<Zero, Zero, Zero>>
  /\ pc = "fixture"

\* model.sir_derivatives(S, I, R, beta)
call_sir_derivatives ==
  /\ pc = "fixture"
  /\ \E beta \in FixtureBetaSet :
       /\ beta_used' = beta
       /\ derivatives' = sir_derivatives(S, I, R, beta)
  /\ pc' = "returned"
  /\ UNCHANGED <<fields, args, steps, step, series, transition_points,
                 S, I, R, t, current_phase, phase_start_time, precision>>

FixtureNext == call_sir_derivatives

FixtureSpec == FixtureInit /\ [][FixtureNext]_vars

----------------------------------------------------------------------------
(* The end-to-end scenario: N = 1000, I0 = 10, R0 = 0, beta_hammer = 0.1,    *)
(* beta_dance = 0.5, gamma = 0.1, hammer_threshold = 50,                     *)
(* dance_threshold = 20, dt = 1, max_days = 200                              *)

\* denominator of the grid arithmetic results are rounded to in the scenario
Resolution == 10000

ScenarioInit ==
  /\ precision = Resolution
  /\ N = Rat(1000, 1)
  /\ I0 = Rat(10, 1)
  /\ R0 = Rat(0, 1)
  /\ S0 = RSub(RSub(N, I0), R0)
  /\ beta_hammer = Rat(1, 10)
  /\ beta_dance = Rat(1, 2)
  /\ gamma = Rat(1, 10)
  /\ max_days = Zero /\ hammer_threshold = Zero /\ dance_threshold = Zero
  /\ dt = Rat(1, 1)
  /\ hammer_duration = None /\ dance_duration = None
  /\ steps = 0 /\ step = 0
  /\ t_list = <<>> /\ S_list = <<>> /\ I_list = <<>> /\ R_list = <<>>
  /\ phase_list = <<>> /\ transition_points = <<>>
  /\ S = Zero /\ I = Zero /\ R = Zero /\ t = Zero
  /\ current_phase = "dance" /\ phase_start_time = Zero
  /\ beta_used = Zero
  /\ derivatives = <<Zero, Zero, Zero>>
  /\ pc = "ready"

\* the call of the scenario
scenario_call ==
  loop_entry(Rat(200, 1), Rat(50, 1), Rat(20, 1), None, None, Rat(1, 1))

ScenarioNext ==
  \/ scenario_call
  \/ dance_iteration
  \/ hammer_iteration
  \/ loop_exhausted

ScenarioSpec == ScenarioInit /\ [][ScenarioNext]_vars

----------------------------------------------------------------------------
(* Properties *)

\* the rate the phase ph stands for
BetaOf(ph) == IF ph = "hammer" THEN beta_hammer ELSE beta_dance

Started == pc \in {"loop", "break", "exhausted", "raised"}

Last(lst) == lst[Len(lst)]

\* C1: in every iteration the transmission rate passed to euler_step is the
\* one of the phase as it stands after that iteration's transition decision
\* (beta_hammer if the updated phase is hammer, otherwise beta_dance).
\* current_phase is only changed by the decision of an iteration, so after
\* any iteration it still holds the post-decision phase of the last one.
\* Runs stopped by ZeroDivisionError integrate nothing and are left out.
C1_RateOfUpdatedPhase ==
  (pc \in {"loop", "break", "exhausted"} /\ step >= 1)
    => beta_used = BetaOf(current_phase)

\* C2: the phase changes from hammer to dance only in an iteration whose
\* pre-integration I is below dance_threshold, from dance to hammer only in
\* one whose pre-integration I is above hammer_threshold, and an iteration
\* with dance_threshold <= I <= hammer_threshold leaves the phase as it was.
C2_Hysteresis ==
  [][ /\ (current_phase = "hammer" /\ current_phase' = "dance")
           => RLt(I, dance_threshold)
      /\ (current_phase = "dance" /\ current_phase' = "hammer")
           => RLt(hammer_threshold, I)
      /\ (step' = step + 1 /\ RLe(dance_threshold, I) /\ RLe(I, hammer_threshold))
           => current_phase' = current_phase ]_vars

\* a run that entered hammer, stayed in hammer through an iteration whose I
\* lay inside the band, and then returned to dance
C2_Witness ==
  /\ Len(transition_points) >= 2
  /\ \E k \in 1..(Len(phase_list) - 1) :
       /\ phase_list[k] = "hammer" /\ phase_list[k + 1] = "hammer"
       /\ RLe(dance_threshold, I_list[k]) /\ RLe(I_list[k], hammer_threshold)

\* C3: each phase change appends exactly one event holding the time at the
\* start of the iteration and the pre-integration infected count; a step
\* without a phase change leaves the log as it is; entries already in the
\* log are never removed, modified or reordered.
C3_TransitionLog ==
  [][ IF current_phase' # current_phase
        THEN transition_points' =
               Append(transition_points,
                      <<t,
                        IF current_phase' = "hammer"
                          THEN "dance_to_hammer"
                          ELSE "hammer_to_dance_threshold",
                        I>>)
        ELSE transition_points' = transition_points ]_vars

\* a log of two events, the second one taken at a time after the start
C3_Witness ==
  /\ Len(transition_points) >= 2
  /\ transition_points[2][1] # Zero
  /\ Len(t_list) > Len(transition_points)

Positive(a) == a.num > 0

Budget == Floor(RDiv(max_days, dt))

Extinct(Ix) == RLt(Ix, ExtinctionThreshold)

\* the ways the loop is claimed to end, and the iteration bound
LoopEndsAsClaimed ==
  /\ step <= Budget
  /\ pc \in {"loop", "break", "exhausted"}
  /\ pc = "break" => (step >= 1 /\ Extinct(I))
  /\ pc = "exhausted" => (step = Budget /\ (step >= 1 => ~Extinct(I)))
  /\ (pc = "loop" /\ step >= 1) => ~Extinct(I)

NeverExtinct ==
  /\ \A k \in 2..Len(I_list) : ~Extinct(I_list[k])
  /\ step >= 1 => ~Extinct(I)

C6_FinalRecordedInfected ==
  pc = "break" => Extinct(Last(I_list))

\* C7: if the post-integration infected count first falls below 0.1 in
\* iteration k, no further iteration is executed, and the returned series
\* has exactly k entries; with k < floor(max_days/dt) the run stopped
\* strictly before the step budget.
C7_ImmediateStop ==
  [][ /\ ~(step >= 1 /\ pc # "raised" /\ Extinct(I))
      /\ (step' = step + 1 /\ pc' # "raised" /\ Extinct(I'))
           => /\ pc' = "break"
              /\ Len(t_list') = step' /\ Len(S_list') = step'
              /\ Len(I_list') = step' /\ Len(R_list') = step'
              /\ Len(phase_list') = step' ]_vars

\* a run stopped by extinction in its second or a later iteration, strictly
\* before its step budget
C7_Witness ==
  /\ pc = "break" /\ Extinct(I)
  /\ step >= 2 /\ step < Budget /\ Len(t_list) = step

RSum3(a, b, c) == RAdd(RAdd(a, b), c)

\* C9: with N > 0 and S0 = N - I0 - R0, every recorded entry and every
\* state after an Euler step satisfies S + I + R = N, and at every state
\* the loop is about to integrate sir_derivatives returns dS + dI + dR = 0
\* under either rate.
C9_Conservation ==
  (Started /\ Positive(N))
    => /\ RSum3(S, I, R) = N
       /\ \A k \in 1..Len(S_list) : RSum3(S_list[k], I_list[k], R_list[k]) = N
       /\ (pc = "loop" /\ step < steps)
            => \A b \in {beta_hammer, beta_dance} :
                 LET d == sir_derivatives(S, I, R, b)
                 IN  RSum3(d[1], d[2], d[3]) = Zero

\* a run that has stepped under both rates and moved recovered away from infected
C9_Witness ==
  /\ Started /\ Positive(N) /\ step >= 3
  /\ \E j, k \in 1..Len(phase_list) : phase_list[j] # phase_list[k]
  /\ beta_hammer # beta_dance
  /\ R # I /\ R # R0 /\ S # S0

\* C10: with N > 0, gamma > 0, dt > 0 and I0 >= 0 the recorded R sequence is
\* non-decreasing.
C10_RecoveredMonotone ==
  (Positive(N) /\ Positive(gamma) /\ Positive(dt) /\ RLe(Zero, I0))
    => \A k \in 1..(Len(R_list) - 1) : RLe(R_list[k], R_list[k + 1])

\* a run whose last Euler step overshot to a negative infected count after
\* recovered had grown
C10_Witness ==
  /\ pc = "break" /\ Positive(N) /\ RLt(I, Zero)
  /\ Len(R_list) >= 2 /\ RLt(R_list[1], R_list[2])

IsAppendOf(new, old) ==
  Len(new) = Len(old) + 1 /\ SubSeq(new, 1, Len(old)) = old

ThresholdPhase(ph, Ix) ==
  IF ph = "dance"
    THEN IF RLt(hammer_threshold, Ix) THEN "hammer" ELSE "dance"
    ELSE IF RLt(Ix, dance_threshold) THEN "dance" ELSE "hammer"

\* the state an iteration leaves, computed from the state it is entered in
\* without hammer_duration and dance_duration
IterationResult ==
  LET ph      == ThresholdPhase(current_phase, I)
      changed == ph # current_phase
      kind    == IF ph = "hammer" THEN "dance_to_hammer"
                                  ELSE "hammer_to_dance_threshold"
      new     == euler_step(S, I, R, BetaOf(current_phase), dt)
      raised  == N.num = 0
  IN  [series |-> <<Append(t_list, t), Append(S_list, S), Append(I_list, I),
                    Append(R_list, R), Append(phase_list, current_phase)>>,
       phase  |-> ph,
       start  |-> IF changed THEN t ELSE phase_start_time,
       log    |-> IF changed THEN Append(transition_points, <<t, kind, I>>)
                             ELSE transition_points,
       state  |-> IF raised THEN <<S, I, R, t>>
                            ELSE <<new[1], new[2], new[3], RAdd(t, dt)>>,
       pc     |-> IF raised THEN "raised"
                  ELSE IF RLt(new[2], ExtinctionThreshold) THEN "break"
                  ELSE "loop"]

FixtureCall ==
  /\ pc = "returned"
  /\ N = Rat(10000, 1) /\ gamma = Rat(1, 10) /\ beta_used = Rat(1, 2)
  /\ S = Rat(9000, 1) /\ I = Rat(900, 1) /\ R = Rat(100, 1)

\* C13 as stated: for S = 9000, I = 900, R = 100, N = 10000, beta = 0.5,
\* gamma = 0.1, sir_derivatives returns dS = -405.0, dI = 360.0, dR = 90.0.
C13_Original ==
  FixtureCall => derivatives = <<Rat(-405, 1), Rat(360, 1), Rat(90, 1)>>

\* C13: for S = 9000, I = 900, R = 100, N = 10000, beta = 0.5, gamma = 0.1,
\* sir_derivatives returns dS = -405.0, dI = 315.0, dR = 90.0.
C13_Fixture ==
  FixtureCall => derivatives = <<Rat(-405, 1), Rat(315, 1), Rat(90, 1)>>

C13_Witness == FixtureCall

\* the run has ended by extinction or by exhaustion of the step budget
Returned == pc \in {"break", "exhausted"}

\* the log entry e of the given kind was decided in a recorded iteration
\* whose entry holds the infected count of the log entry
DecidedAt(e, kind) ==
  /\ e[2] = kind
  /\ \E k \in 1..Len(t_list) : t_list[k] = e[1] /\ I_list[k] = e[3]

EventsAt(tx) ==
  {j \in 1..Len(transition_points) : transition_points[j][1] = tx}

\* C15: in every iteration the phase changes exactly when the strict
\* condition of the phase the iteration is entered in holds (dance:
\* I > hammer_threshold, hammer: I < dance_threshold); I equal to the
\* threshold changes nothing; an iteration makes at most one change and logs
\* one event for it, so it never goes dance -> hammer -> dance or
\* hammer -> dance -> hammer, also when dance_threshold >= hammer_threshold.
C15_ExactTransitions ==
  [][ step' = step + 1 =>
        /\ current_phase = "dance" =>
             (current_phase' = "hammer" <=> RLt(hammer_threshold, I))
        /\ current_phase = "hammer" =>
             (current_phase' = "dance" <=> RLt(I, dance_threshold))
        /\ (current_phase = "dance" /\ I = hammer_threshold) =>
             UNCHANGED <<current_phase, transition_points>>
        /\ (current_phase = "hammer" /\ I = dance_threshold) =>
             UNCHANGED <<current_phase, transition_points>>
        /\ IF current_phase' # current_phase
             THEN /\ Len(transition_points') = Len(transition_points) + 1
                  /\ SubSeq(transition_points', 1, Len(transition_points))
                       = transition_points
                  /\ Last(transition_points')[2] =
                       (IF current_phase = "dance" THEN "dance_to_hammer"
                                                   ELSE "hammer_to_dance_threshold")
             ELSE UNCHANGED transition_points ]_vars

\* with dance_threshold > hammer_threshold, one run has a dance iteration
\* entered with I = hammer_threshold that changed nothing and a dance
\* iteration entered with hammer_threshold < I < dance_threshold that
\* switched to hammer, logged one event and did not switch back
C15_Witness ==
  /\ RLt(hammer_threshold, dance_threshold)
  /\ \E j, k \in 1..Len(phase_list) :
       /\ phase_list[j] = "dance" /\ I_list[j] = hammer_threshold
       /\ EventsAt(t_list[j]) = {}
       /\ phase_list[k] = "dance"
       /\ RLt(hammer_threshold, I_list[k]) /\ RLt(I_list[k], dance_threshold)
       /\ Cardinality(EventsAt(t_list[k])) = 1
       /\ k < Len(phase_list) /\ phase_list[k + 1] = "hammer"

\* C16: the transition decision never changes the population state.  An
\* executed iteration changes (S, I, R) by one Euler step from the state the
\* iteration was entered in, S + dS*dt, I + dI*dt, R + dR*dt with the
\* derivatives at that state (or not at all when sir_derivatives raises), no
\* other step of the loop changes (S, I, R), and N, gamma, beta_hammer,
\* beta_dance, hammer_threshold and dance_threshold are unchanged by every
\* iteration.
C16_PopulationFrame ==
  [][ pc = "loop" =>
        /\ UNCHANGED <<N, gamma, beta_hammer, beta_dance,
                       hammer_threshold, dance_threshold>>
        /\ IF step' = step + 1 /\ pc' # "raised"
             THEN LET d == sir_derivatives(S, I, R, beta_used')
                  IN  /\ beta_used' \in {beta_hammer, beta_dance}
                      /\ S' = RAdd(S, RMul(d[1], dt))
                      /\ I' = RAdd(I, RMul(d[2], dt))
                      /\ R' = RAdd(R, RMul(d[3], dt))
                      /\ <<Last(S_list'), Last(I_list'), Last(R_list')>> = <<S, I, R>>
             ELSE UNCHANGED <<S, I, R>> ]_vars

\* an iteration that changed the phase has moved all three compartments
C16_Witness ==
  /\ pc = "loop" /\ step >= 1
  /\ EventsAt(Last(t_list)) # {}
  /\ S # Last(S_list) /\ I # Last(I_list) /\ R # Last(R_list)
  /\ dt = Rat(2, 1)

C18_LabelIsRateUsed ==
  /\ (Started /\ step >= 1) =>
       /\ beta_used = BetaOf(Last(phase_list))
       /\ beta_hammer # beta_dance =>
            /\ beta_used = beta_hammer <=> Last(phase_list) = "hammer"
            /\ beta_used = beta_dance <=> Last(phase_list) = "dance"
  /\ Started =>
       \A k \in 1..(Len(phase_list) - 1) :
         <<S_list[k + 1], I_list[k + 1], R_list[k + 1]>> =
           euler_step(S_list[k], I_list[k], R_list[k], BetaOf(phase_list[k]), dt)

\* an iteration recorded as dance has switched to hammer, the two rates
\* differ, and a later entry has been recorded
C18_Witness ==
  /\ Started /\ beta_hammer # beta_dance
  /\ \E k \in 1..(Len(phase_list) - 1) :
       /\ phase_list[k] = "dance" /\ phase_list[k + 1] = "hammer"
       /\ S_list[k + 1] # S_list[k]
  /\ current_phase # Last(phase_list)

\* the indices k, k+1 inside the series at which the label changes
LabelChanges ==
  {k \in 1..(Len(phase_list) - 1) : phase_list[k + 1] # phase_list[k]}

\* C19: the phase sequence follows the log with a lag of one entry: for
\* every index k with k+1 inside the series, phase[k+1] differs from
\* phase[k] if and only if the log has an event whose time is time[k]; a
\* transition decided in the last executed iteration is in the log but shows
\* in no entry of the phase sequence (the last label is still the phase the
\* iteration was entered in, and the log has one event more than the
\* sequence has label changes).
C19_OneEntryLag ==
  Started =>
    /\ \A k \in 1..(Len(phase_list) - 1) :
         phase_list[k + 1] # phase_list[k] <=> EventsAt(t_list[k]) # {}
    /\ Len(t_list) >= 1 =>
         IF EventsAt(Last(t_list)) # {}
           THEN /\ current_phase # Last(phase_list)
                /\ Len(transition_points) = Cardinality(LabelChanges) + 1
           ELSE /\ current_phase = Last(phase_list)
                /\ Len(transition_points) = Cardinality(LabelChanges)

\* a returned run with a label change inside the series and a transition
\* decided in its last iteration
C19_Witness ==
  /\ Returned
  /\ LabelChanges # {}
  /\ EventsAt(Last(t_list)) # {}

\* every recorded infected value except possibly the first is at least 0.1,
\* and the first entry is the initial state
RecordedInfected ==
  /\ \A k \in 2..Len(I_list) : ~Extinct(I_list[k])
  /\ Len(t_list) >= 1 =>
       <<t_list[1], S_list[1], I_list[1], R_list[1], phase_list[1]>> =
         <<Zero, RSub(RSub(N, I0), R0), I0, R0, "dance">>

\* C20 as stated: every recorded infected value except possibly the first is
\* at least 0.1; the first entry is always the initial state
\* (0, N-I0-R0, I0, R0, 'dance'), recorded even when I0 < 0.1, in which case
\* exactly one iteration is executed.
C20_Original ==
  Started =>
    /\ RecordedInfected
    /\ Extinct(I0) => step <= 1
    /\ (Extinct(I0) /\ pc # "loop" /\ steps >= 1) => step = 1 /\ Len(I_list) = 1

\* C20: every recorded infected value except possibly the first is at least
\* 0.1; the first entry is always the initial state
\* (0, N-I0-R0, I0, R0, 'dance'), recorded even when I0 < 0.1; in that case
\* the first iteration is the only one when its Euler step leaves I below
\* 0.1, and a second iteration is executed only when the step has raised I
\* to at least 0.1.
C20_RecordedInfected ==
  Started =>
    /\ RecordedInfected
    /\ (Extinct(I0) /\ steps >= 1 /\ pc # "loop") => step >= 1 /\ I_list[1] = I0
    /\ (Extinct(I0) /\ step = 1 /\ Extinct(I)) => pc \in {"break", "raised"}
    /\ (Extinct(I0) /\ step >= 2) => ~Extinct(I_list[2])

\* a run started with 0 < I0 < 0.1 has executed two iterations
C20_Witness ==
  /\ Started /\ Extinct(I0) /\ Positive(I0)
  /\ step = 2 /\ Len(I_list) = 2
  /\ I_list[1] = I0 /\ ~Extinct(I_list[2])

=============================================================================
